---- MODULE Spec2Model ----
(***************************************************************************)
(* drone-read-trusted: main() processes the plugin arguments and calls     *)
(* plugin.Exec, which reads a file from a trusted branch (git show, with a *)
(* fallback to git fetch + git checkout -B), reads the same file from the  *)
(* working tree, compares the two and writes the outputs TRUSTED and       *)
(* TRUSTED_FILE_CONTENT.                                                   *)
(*                                                                         *)
(* The repository is reduced to the one file the run is about: every       *)
(* branch tip and the working tree hold either no file or its bytes.       *)
(* The working tree is clean at the start of the first run (it holds the   *)
(* file as committed on the checked-out branch) and the remote uses the    *)
(* default fetch refspec, so a fetch of a branch updates origin/<branch>.  *)
(* The answers of the environment (does rev-parse work, does the           *)
(* credential step fail and where, does the output sink accept a key) are  *)
(* decided the first time the program asks and stay the same afterwards.   *)
(***************************************************************************)
EXTENDS Integers, Sequences, FiniteSets, TLC

\* ------------------------------------------------------------------ bounds
\* Number of successive runs of the tool against the same repository.
MaxRuns == 2
\* Number of distinct file contents (the first NumContents entries of Sample).
NumContents == 5

\* Byte strings the file may hold: empty, "Man", "Mao" (one byte off), a
\* single high byte, two bytes that encode to '+' and '/', and longer ones.
Sample ==
  << <<>>, <<77, 97, 110>>, <<77, 97, 111>>, <<255>>, <<251, 255>>,
     <<0, 16, 131, 16>>, <<10>>, <<97, 58, 32, 49, 10>> >>

Contents == { Sample[i] : i \in 1..NumContents }

\* ------------------------------------------------------------ base64 (std)
Alphabet ==
  << "A","B","C","D","E","F","G","H","I","J","K","L","M","N","O","P",
     "Q","R","S","T","U","V","W","X","Y","Z","a","b","c","d","e","f",
     "g","h","i","j","k","l","m","n","o","p","q","r","s","t","u","v",
     "w","x","y","z","0","1","2","3","4","5","6","7","8","9","+","/" >>

StdPadding == "="

Sextet(i) == Alphabet[i + 1]

\* base64.RawStdEncoding: the same alphabet, no padding characters.
RECURSIVE RawEncodeToString(_)
RawEncodeToString(src) ==
  IF Len(src) = 0 THEN <<>>
  ELSE IF Len(src) = 1 THEN
    << Sextet(src[1] \div 4), Sextet((src[1] % 4) * 16) >>
  ELSE IF Len(src) = 2 THEN
    << Sextet(src[1] \div 4),
       Sextet((src[1] % 4) * 16 + (src[2] \div 16)),
       Sextet((src[2] % 16) * 4) >>
  ELSE
    << Sextet(src[1] \div 4),
       Sextet((src[1] % 4) * 16 + (src[2] \div 16)),
       Sextet((src[2] % 16) * 4 + (src[3] \div 64)),
       Sextet(src[3] % 64) >>
    \o RawEncodeToString(SubSeq(src, 4, Len(src)))

\* base64.StdEncoding.EncodeToString: groups of three bytes become four
\* characters of the alphabet; a last group of one or two bytes is padded.
RECURSIVE EncodeToString(_)
EncodeToString(src) ==
  IF Len(src) = 0 THEN <<>>
  ELSE IF Len(src) = 1 THEN
    << Sextet(src[1] \div 4), Sextet((src[1] % 4) * 16),
       StdPadding, StdPadding >>
  ELSE IF Len(src) = 2 THEN
    << Sextet(src[1] \div 4),
       Sextet((src[1] % 4) * 16 + (src[2] \div 16)),
       Sextet((src[2] % 16) * 4),
       StdPadding >>
  ELSE
    << Sextet(src[1] \div 4),
       Sextet((src[1] % 4) * 16 + (src[2] \div 16)),
       Sextet((src[2] % 16) * 4 + (src[3] \div 64)),
       Sextet(src[3] % 64) >>
    \o EncodeToString(SubSeq(src, 4, Len(src)))

\* Position of a character in the alphabet (0..63), or -1.
Index(c) ==
  IF \E i \in 1..64 : Alphabet[i] = c
  THEN (CHOOSE i \in 1..64 : Alphabet[i] = c) - 1
  ELSE -1

\* Standard strict decoding, as a later pipeline step applies it to the
\* output: the input is a whole number of four-character groups, padding
\* occurs only at the end of the last group, and the unused low bits of a
\* padded group are zero.  Result: [ok, bytes].
RECURSIVE DecodeString(_)
DecodeString(s) ==
  IF Len(s) = 0 THEN [ok |-> TRUE, bytes |-> <<>>]
  ELSE IF Len(s) < 4 THEN [ok |-> FALSE, bytes |-> <<>>]
  ELSE
    LET a == Index(s[1])
        b == Index(s[2])
        c == Index(s[3])
        d == Index(s[4])
        last == Len(s) = 4
    IN  IF a < 0 \/ b < 0 THEN [ok |-> FALSE, bytes |-> <<>>]
        ELSE IF s[3] = StdPadding THEN
          [ok |-> last /\ s[4] = StdPadding /\ b % 16 = 0,
           bytes |-> << a * 4 + (b \div 16) >>]
        ELSE IF c < 0 THEN [ok |-> FALSE, bytes |-> <<>>]
        ELSE IF s[4] = StdPadding THEN
          [ok |-> last /\ c % 4 = 0,
           bytes |-> << a * 4 + (b \div 16), (b % 16) * 16 + (c \div 4) >>]
        ELSE IF d < 0 THEN [ok |-> FALSE, bytes |-> <<>>]
        ELSE
          LET rest == DecodeString(SubSeq(s, 5, Len(s)))
          IN  [ok |-> rest.ok,
               bytes |-> << a * 4 + (b \div 16),
                            (b % 16) * 16 + (c \div 4),
                            (c % 4) * 64 + d >> \o rest.bytes]

\* ------------------------------------------------------------- repository
Branches == {"main", "feature"}

\* A path in a tree or in the working tree: absent, or the file's bytes.
NoFile == [has |-> FALSE, data |-> <<>>]
Blob(c) == [has |-> TRUE, data |-> c]
Files == {NoFile} \cup { Blob(c) : c \in Contents }

\* A branch reference: absent, or a tip whose tree holds the path or not.
NoBranch == [exists |-> FALSE, file |-> NoFile]
Tip(f) == [exists |-> TRUE, file |-> f]
Refs == {NoBranch} \cup { Tip(f) : f \in Files }

\* --------------------------------------------------------------- strings
UNSET == "<unset>"
TrueStr == <<"t", "r", "u", "e">>
FalseStr == <<"f", "a", "l", "s", "e">>

VARIABLES
  pc,              \* position of the process
  run,             \* number of the current run (1..MaxRuns)
  input,           \* the process environment: PLUGIN_* and DRONE_WORKSPACE
  args,            \* plugin.Args as main/Exec hold it
  repoPath,        \* Exec: repoPath
  resultTrusted,   \* Exec: resultTrusted
  trustedContent,  \* Exec: trustedContent
  currentContent,  \* Exec: currentContent
  encodedContent,  \* Exec: encodedContent
  err,             \* the error Exec returns (or main's envconfig error)
  exitCode,        \* process exit status, -1 while running
  head,            \* repository: checked-out branch
  local,           \* repository: refs/heads/<b>
  tracking,        \* repository: refs/remotes/origin/<b>
  remote,          \* origin: refs/heads/<b>
  wt,              \* working tree: <repo path>/<file path>
  credHelper,      \* git config --global credential.helper
  credFile,        \* ~/.git-credentials
  sink,            \* the output file: records that landed, over all runs
  writes,          \* WriteEnvToFile calls of the current run, in order
  calls,           \* git / filesystem steps of the current run, in order
  env,             \* answers of the environment decided so far
  start,           \* repository and credential state when the run began
  prev             \* result of the previous run

vars ==
  << pc, run, input, args, repoPath, resultTrusted, trustedContent,
     currentContent, encodedContent, err, exitCode, head, local, tracking,
     remote, wt, credHelper, credFile, sink, writes, calls, env, start, prev >>

repoVars == << head, local, tracking, remote, wt >>
credVars == << credHelper, credFile >>
localVars ==
  << repoPath, resultTrusted, trustedContent, currentContent, encodedContent >>

\* ----------------------------------------------------------------- inputs
\* The settings of one invocation.  file_path and trusted_branch are
\* `required:"true"`; the others default to the empty string.  When a
\* mandatory setting is absent nothing else is ever read, so one
\* representative of the optional settings is kept.
InputSet ==
  { i \in [ RepoPath : {"", "/repo"},
            FilePath : {UNSET, "config.yml"},
            TrustedBranch : {UNSET, "main"},
            CurrentBranch : {"", "pr-branch"},
            GitPat : {"", "ghp_token"},
            DRONE_WORKSPACE : {"", "/repo"} ] :
      (i.FilePath = UNSET \/ i.TrustedBranch = UNSET)
        => /\ i.RepoPath = "" /\ i.CurrentBranch = ""
           /\ i.GitPat = "" /\ i.DRONE_WORKSPACE = "" }

NoInput ==
  [ RepoPath |-> "", FilePath |-> UNSET, TrustedBranch |-> UNSET,
    CurrentBranch |-> "", GitPat |-> "", DRONE_WORKSPACE |-> "" ]

\* type Args struct
Args(i) ==
  [ RepoPath |-> i.RepoPath, FilePath |-> i.FilePath,
    TrustedBranch |-> i.TrustedBranch, CurrentBranch |-> i.CurrentBranch,
    GitPat |-> i.GitPat ]

\* ------------------------------------------------------------ environment
Facts == {"revparse", "cred", "checkout", "TRUSTED", "TRUSTED_FILE_CONTENT"}

\* The environment answers `a` to question `f` if it has not answered it
\* yet or answered `a` before.
Answers(f, a) == env[f] \in {"?", a}
Record(f, a) == [env EXCEPT ![f] = a]

Snapshot ==
  [ head |-> head, local |-> local, wt |-> wt,
    credHelper |-> credHelper, credFile |-> credFile ]

NoResult == [ err |-> "none", exitCode |-> -1, writes |-> <<>>, calls |-> <<>> ]

Init ==
  /\ pc = "main"
  /\ run = 1
  /\ input = NoInput
  /\ args = Args(NoInput)
  /\ repoPath = ""
  /\ resultTrusted = <<>>
  /\ trustedContent = <<>>
  /\ currentContent = <<>>
  /\ encodedContent = <<>>
  /\ err = "nil"
  /\ exitCode = -1
  /\ head \in Branches
  /\ local \in [Branches -> Refs]
  /\ local[head].exists
  /\ head = "main" => local["feature"] = NoBranch
  /\ remote \in [Branches -> Refs]
  /\ remote["feature"] = local["feature"]
  /\ tracking \in [Branches -> Refs]
  /\ tracking["feature"] = local["feature"]
  /\ wt = local[head].file
  /\ credHelper = ""
  /\ credFile = <<>>
  /\ sink = <<>>
  /\ writes = <<>>
  /\ calls = <<>>
  /\ env = [f \in Facts |-> "?"]
  /\ start = [ head |-> head, local |-> local, wt |-> local[head].file,
               credHelper |-> "", credFile |-> <<>> ]
  /\ prev = NoResult

\* -------------------------------------------------------------- utilities
\* WriteEnvToFile(key, value): append key=value to the output file, or
\* return an error.
WriteEnvToFile(key, value, ok) ==
  /\ writes' = Append(writes, [key |-> key, value |-> value, ok |-> ok])
  /\ sink' = IF ok THEN Append(sink, [key |-> key, value |-> value]) ELSE sink

Call(op, ok) == calls' = Append(calls, [op |-> op, ok |-> ok])

\* `return <error>` in Exec: the deferred function runs next.
Return(e) ==
  /\ err' = e
  /\ pc' = "defer"

\* ------------------------------------------------------------------- main
\* main: envconfig.Process("", &args); a missing required setting is fatal.
Process ==
  /\ pc = "main"
  /\ \E i \in InputSet :
       /\ run > 1 => i = input
       /\ input' = i
       /\ IF i.FilePath = UNSET \/ i.TrustedBranch = UNSET
          THEN /\ err' = "envconfig"
               /\ exitCode' = 1
               /\ pc' = "exit"
               /\ UNCHANGED args
          ELSE /\ args' = Args(i)
               /\ pc' = "Exec"
               /\ UNCHANGED << err, exitCode >>
  /\ UNCHANGED << run, localVars, repoVars, credVars, sink, writes, calls,
                  env, start, prev >>

\* Exec, lines 25-40: resultTrusted starts "false", the deferred write is
\* registered, and the repository path is resolved.
ExecBegin ==
  /\ pc = "Exec"
  /\ resultTrusted' = FalseStr
  /\ LET p == IF args.RepoPath # "" THEN args.RepoPath
              ELSE input.DRONE_WORKSPACE
     IN  /\ repoPath' = p
         /\ IF p = "" THEN Return("repo_path")
            ELSE pc' = "branch" /\ UNCHANGED err
  /\ UNCHANGED << run, input, args, trustedContent, currentContent,
                  encodedContent, exitCode, repoVars, credVars, sink, writes,
                  calls, env, start, prev >>

\* getCurrentBranch: git rev-parse --abbrev-ref HEAD.
getCurrentBranch == head

\* Exec, lines 42-48.
ResolveCurrentBranch ==
  /\ pc = "branch"
  /\ IF args.CurrentBranch # ""
     THEN /\ pc' = "cred"
          /\ UNCHANGED << args, err, calls, env >>
     ELSE \E a \in {"ok", "fail"} :
            /\ Answers("revparse", a)
            /\ env' = Record("revparse", a)
            /\ Call("rev-parse", a = "ok")
            /\ IF a = "ok"
               THEN /\ args' = [args EXCEPT !.CurrentBranch = getCurrentBranch]
                    /\ pc' = "cred"
                    /\ UNCHANGED err
               ELSE /\ Return("current_branch")
                    /\ UNCHANGED args
  /\ UNCHANGED << run, input, localVars, exitCode, repoVars, credVars, sink,
                  writes, start, prev >>

\* The credential line: "https://x-access-token:%s@github.com".
credContent(gitPat) == << "https://x-access-token:", gitPat, "@github.com" >>

\* configureGitCredentials(gitPat): git config --global credential.helper
\* store, os.UserHomeDir, os.WriteFile(~/.git-credentials); `fault` is the
\* step that fails ("none": no step fails).
configureGitCredentials(gitPat, fault) ==
  /\ credHelper' = IF fault = "gitconfig" THEN credHelper ELSE "store"
  /\ credFile' = IF fault = "none" THEN credContent(gitPat) ELSE credFile

\* Exec, lines 50-54, without the test for an empty token.
ConfigureCredentialsAlways ==
  /\ pc = "cred"
  /\ \E fault \in {"none", "gitconfig", "homedir", "writefile"} :
       /\ Answers("cred", fault)
       /\ env' = Record("cred", fault)
       /\ configureGitCredentials(args.GitPat, fault)
       /\ Call("credentials", fault = "none")
       /\ IF fault = "none" THEN pc' = "direct" /\ UNCHANGED err
          ELSE Return("credentials")
  /\ UNCHANGED << run, input, args, localVars, exitCode, repoVars, sink,
                  writes, start, prev >>

\* Exec, lines 50-54.
ConfigureCredentials ==
  /\ pc = "cred"
  /\ IF args.GitPat # ""
     THEN \E fault \in {"none", "gitconfig", "homedir", "writefile"} :
            /\ Answers("cred", fault)
            /\ env' = Record("cred", fault)
            /\ configureGitCredentials(args.GitPat, fault)
            /\ Call("credentials", fault = "none")
            /\ IF fault = "none" THEN pc' = "direct" /\ UNCHANGED err
               ELSE Return("credentials")
     ELSE /\ pc' = "direct"
          /\ UNCHANGED << err, credVars, calls, env >>
  /\ UNCHANGED << run, input, args, localVars, exitCode, repoVars, sink,
                  writes, start, prev >>

\* getFileContentFromBranch: git show <branch>:<path>.  The name resolves
\* to the local branch; the blob is printed as it is.
getFileContentFromBranch(branch) ==
  IF local[branch].exists /\ local[branch].file.has
  THEN [ok |-> TRUE, out |-> local[branch].file.data]
  ELSE [ok |-> FALSE, out |-> <<>>]

\* Exec, lines 56-60, falling back whatever the direct read returned.
DirectReadThenFallback ==
  /\ pc = "direct"
  /\ LET r == getFileContentFromBranch(args.TrustedBranch)
     IN  /\ Call("show", r.ok)
         /\ trustedContent' = r.out
         /\ pc' = "fetch"
  /\ UNCHANGED << run, input, args, repoPath, resultTrusted, currentContent,
                  encodedContent, err, exitCode, repoVars, credVars, sink,
                  writes, env, start, prev >>

\* Exec, lines 56-60: the direct tier; on failure the fallback tier is next.
DirectRead ==
  /\ pc = "direct"
  /\ LET r == getFileContentFromBranch(args.TrustedBranch)
     IN  /\ Call("show", r.ok)
         /\ trustedContent' = r.out
         /\ pc' = IF r.ok THEN "readcurrent" ELSE "fetch"
  /\ UNCHANGED << run, input, args, repoPath, resultTrusted, currentContent,
                  encodedContent, err, exitCode, repoVars, credVars, sink,
                  writes, env, start, prev >>

\* checkoutAndReadFile, lines 131-134, with a fetch that leaves
\* origin/<branch> as it was.
FetchWithoutTrackingUpdate ==
  /\ pc = "fetch"
  /\ LET b == args.TrustedBranch
     IN  IF remote[b].exists
         THEN /\ Call("fetch", TRUE)
              /\ pc' = "checkout"
              /\ UNCHANGED << tracking, trustedContent, err >>
         ELSE /\ Call("fetch", FALSE)
              /\ trustedContent' = <<>>
              /\ Return("heavyweight")
              /\ UNCHANGED tracking
  /\ UNCHANGED << run, input, args, repoPath, resultTrusted, currentContent,
                  encodedContent, exitCode, head, local, remote, wt, credVars,
                  sink, writes, env, start, prev >>

\* checkoutAndReadFile, lines 131-134: git fetch origin <branch>.
Fetch ==
  /\ pc = "fetch"
  /\ LET b == args.TrustedBranch
     IN  IF remote[b].exists
         THEN /\ Call("fetch", TRUE)
              /\ tracking' = [tracking EXCEPT ![b] = remote[b]]
              /\ pc' = "checkout"
              /\ UNCHANGED << trustedContent, err >>
         ELSE /\ Call("fetch", FALSE)
              /\ trustedContent' = <<>>
              /\ Return("heavyweight")
              /\ UNCHANGED tracking
  /\ UNCHANGED << run, input, args, repoPath, resultTrusted, currentContent,
                  encodedContent, exitCode, head, local, remote, wt, credVars,
                  sink, writes, env, start, prev >>

\* checkoutAndReadFile, lines 136-140: git checkout -B <branch>
\* origin/<branch>.  The local branch is created or reset to the
\* remote-tracking tip, HEAD moves to it and the working tree follows.
\* The command fails when origin/<branch> does not resolve or when the
\* environment refuses it (index lock, unwritable tree).
Checkout ==
  /\ pc = "checkout"
  /\ \E a \in {"ok", "fail"} :
       LET b == args.TrustedBranch
       IN  /\ Answers("checkout", a)
           /\ env' = Record("checkout", a)
           /\ IF tracking[b].exists /\ a = "ok"
              THEN /\ Call("checkout", TRUE)
                   /\ local' = [local EXCEPT ![b] = tracking[b]]
                   /\ head' = b
                   /\ wt' = tracking[b].file
                   /\ pc' = "readtrusted"
                   /\ UNCHANGED << trustedContent, err >>
              ELSE /\ Call("checkout", FALSE)
                   /\ trustedContent' = <<>>
                   /\ Return("heavyweight")
                   /\ UNCHANGED << local, head, wt >>
  /\ UNCHANGED << run, input, args, repoPath, resultTrusted, currentContent,
                  encodedContent, exitCode, tracking, remote, credVars, sink,
                  writes, start, prev >>

\* checkoutAndReadFile, lines 142-147, with the read error dropped: a
\* missing file reads as empty.
ReadTrustedIgnoringError ==
  /\ pc = "readtrusted"
  /\ Call("readtrusted", wt.has)
  /\ trustedContent' = wt.data
  /\ pc' = "readcurrent"
  /\ UNCHANGED << run, input, args, repoPath, resultTrusted, currentContent,
                  encodedContent, err, exitCode, repoVars, credVars, sink,
                  writes, env, start, prev >>

\* checkoutAndReadFile, lines 142-147: os.ReadFile(<repo path>/<file path>).
ReadTrusted ==
  /\ pc = "readtrusted"
  /\ Call("readtrusted", wt.has)
  /\ IF wt.has
     THEN /\ trustedContent' = wt.data
          /\ pc' = "readcurrent"
          /\ UNCHANGED err
     ELSE /\ trustedContent' = <<>>
          /\ Return("heavyweight")
  /\ UNCHANGED << run, input, args, repoPath, resultTrusted, currentContent,
                  encodedContent, exitCode, repoVars, credVars, sink, writes,
                  env, start, prev >>

\* Exec, lines 66-72, reading the file as it was when the run began.
ReadCurrentAsAtStart ==
  /\ pc = "readcurrent"
  /\ Call("readcurrent", start.wt.has)
  /\ IF start.wt.has
     THEN /\ currentContent' = start.wt.data
          /\ pc' = "compare"
          /\ UNCHANGED err
     ELSE /\ Return("read_current")
          /\ UNCHANGED currentContent
  /\ UNCHANGED << run, input, args, repoPath, resultTrusted, trustedContent,
                  encodedContent, exitCode, repoVars, credVars, sink, writes,
                  env, start, prev >>

\* Exec, lines 66-72: os.ReadFile(<repo path>/<file path>).
ReadCurrent ==
  /\ pc = "readcurrent"
  /\ Call("readcurrent", wt.has)
  /\ IF wt.has
     THEN /\ currentContent' = wt.data
          /\ pc' = "compare"
          /\ UNCHANGED err
     ELSE /\ Return("read_current")
          /\ UNCHANGED currentContent
  /\ UNCHANGED << run, input, args, repoPath, resultTrusted, trustedContent,
                  encodedContent, exitCode, repoVars, credVars, sink, writes,
                  env, start, prev >>

\* Exec, lines 74-83: the comparison; on a match the flag becomes "true"
\* and the content is encoded.
Compare ==
  /\ pc = "compare"
  /\ Call("compare", trustedContent = currentContent)
  /\ IF trustedContent # currentContent
     THEN /\ Return("mismatch")
          /\ UNCHANGED << resultTrusted, encodedContent >>
     ELSE /\ resultTrusted' = TrueStr
          /\ encodedContent' = EncodeToString(trustedContent)
          /\ pc' = "writecontent"
          /\ UNCHANGED err
  /\ UNCHANGED << run, input, args, repoPath, trustedContent, currentContent,
                  exitCode, repoVars, credVars, sink, writes, env, start, prev >>

\* Exec, lines 85-91: WriteEnvToFile("TRUSTED_FILE_CONTENT", encodedContent).
WriteContent ==
  /\ pc = "writecontent"
  /\ \E a \in {"ok", "fail"} :
       /\ Answers("TRUSTED_FILE_CONTENT", a)
       /\ env' = Record("TRUSTED_FILE_CONTENT", a)
       /\ WriteEnvToFile("TRUSTED_FILE_CONTENT", encodedContent, a = "ok")
       /\ Return(IF a = "ok" THEN "nil" ELSE "write_content")
  /\ UNCHANGED << run, input, args, localVars, exitCode, repoVars, credVars,
                  calls, start, prev >>

\* Exec, lines 28-32: the deferred WriteEnvToFile("TRUSTED", resultTrusted);
\* a failure is logged and the returned error is left as it is.
DeferredWrite ==
  /\ pc = "defer"
  /\ \E a \in {"ok", "fail"} :
       /\ Answers("TRUSTED", a)
       /\ env' = Record("TRUSTED", a)
       /\ WriteEnvToFile("TRUSTED", resultTrusted, a = "ok")
  /\ pc' = "return"
  /\ UNCHANGED << run, input, args, localVars, err, exitCode, repoVars,
                  credVars, calls, start, prev >>

\* main, lines 19-22: logrus.Fatalln on an error, exit status 0 otherwise.
MainExit ==
  /\ pc = "return"
  /\ exitCode' = IF err # "nil" THEN 1 ELSE 0
  /\ pc' = "exit"
  /\ UNCHANGED << run, input, args, localVars, err, repoVars, credVars, sink,
                  writes, calls, env, start, prev >>

\* The tool is run again, with the same settings, on the repository as the
\* previous run left it.
Rerun ==
  /\ pc = "exit"
  /\ run < MaxRuns
  /\ run' = run + 1
  /\ prev' = [ err |-> err, exitCode |-> exitCode, writes |-> writes,
                calls |-> calls ]
  /\ start' = Snapshot
  /\ pc' = "main"
  /\ args' = Args(NoInput)
  /\ repoPath' = ""
  /\ resultTrusted' = <<>>
  /\ trustedContent' = <<>>
  /\ currentContent' = <<>>
  /\ encodedContent' = <<>>
  /\ err' = "nil"
  /\ exitCode' = -1
  /\ writes' = <<>>
  /\ calls' = <<>>
  /\ UNCHANGED << input, repoVars, credVars, sink, env >>

Next ==
  \/ Process
  \/ ExecBegin
  \/ ResolveCurrentBranch
  \/ ConfigureCredentials
  \/ DirectRead
  \/ Fetch
  \/ Checkout
  \/ ReadTrusted
  \/ ReadCurrent
  \/ Compare
  \/ WriteContent
  \/ DeferredWrite
  \/ MainExit
  \/ Rerun

Spec == Init /\ [][Next]_vars

\* ================================================================ claims
Did(op) == \E i \in 1..Len(calls) : calls[i].op = op
Ok(op) == \E i \in 1..Len(calls) : calls[i].op = op /\ calls[i].ok
Failed(op) == \E i \in 1..Len(calls) : calls[i].op = op /\ ~calls[i].ok
WritesOf(key) == SelectSeq(writes, LAMBDA w : w.key = key)
ValuesOf(key) ==
  [ i \in 1..Len(WritesOf(key)) |-> WritesOf(key)[i].value ]
Done == pc = "exit"
Trusted == args.TrustedBranch
FallbackOps == {"fetch", "checkout", "readtrusted"}
FallbackCalls == SelectSeq(calls, LAMBDA c : c.op \in FallbackOps)
FallbackFailed == \E op \in FallbackOps : Failed(op)
RepoAsAtStart ==
  /\ head = start.head
  /\ local = start.local
  /\ wt = start.wt

\* The trusted branch's file, as the tier that supplied it saw it, differs
\* from the file of the branch checked out when the run began.
DiffersOnDirectPath ==
  /\ Ok("show")
  /\ start.wt.has
  /\ start.local[Trusted].file.data # start.wt.data
DiffersOnFallbackPath ==
  /\ Ok("readtrusted")
  /\ start.wt.has
  /\ remote[Trusted].file.data # start.wt.data

\* C1: a run in which the trusted branch's content of the file differs
\* from the content on the branch checked out at the start ends with an
\* error, writes TRUSTED as "false" and never writes TRUSTED_FILE_CONTENT,
\* on the direct path and on the fallback path.
C1_MismatchRejected ==
  (Done /\ (DiffersOnDirectPath \/ DiffersOnFallbackPath))
    => /\ err # "nil"
       /\ exitCode = 1
       /\ ValuesOf("TRUSTED") = << FalseStr >>
       /\ WritesOf("TRUSTED_FILE_CONTENT") = <<>>

\* C1 holds on the direct path.
C1_DirectPathRejected ==
  (Done /\ DiffersOnDirectPath)
    => /\ err = "mismatch"
       /\ ValuesOf("TRUSTED") = << FalseStr >>
       /\ WritesOf("TRUSTED_FILE_CONTENT") = <<>>

C3_TrustedWrittenOnce ==
  Done => /\ Len(WritesOf("TRUSTED")) = 1
          /\ ~Ok("compare") => ValuesOf("TRUSTED") = << FalseStr >>

\* C3 holds for every run that enters Exec.
C3_TrustedWrittenOnceInExec ==
  (Done /\ err # "envconfig")
    => /\ Len(WritesOf("TRUSTED")) = 1
       /\ ~Ok("compare") => ValuesOf("TRUSTED") = << FalseStr >>

\* C4: if the file does not exist on the branch checked out when the run
\* began, the run ends with an error and TRUSTED is "false", whichever
\* tier supplied the trusted content.
C4_MissingCurrentFileRejected ==
  (Done /\ ~start.wt.has /\ err # "envconfig")
    => /\ err # "nil"
       /\ ValuesOf("TRUSTED") = << FalseStr >>

\* C5: when the direct tier fails and the fallback tier fails (at fetch,
\* checkout or read), Exec returns an error, the current file is neither
\* read nor compared, TRUSTED is written as "false" and
\* TRUSTED_FILE_CONTENT is not written.
C5_BothTiersFail ==
  FallbackFailed
    => /\ Failed("show")
       /\ err = "heavyweight"
       /\ ~Did("readcurrent")
       /\ ~Did("compare")
       /\ resultTrusted = FalseStr
       /\ WritesOf("TRUSTED_FILE_CONTENT") = <<>>
       /\ pc \in {"defer", "return", "exit"}
       /\ pc # "defer" => ValuesOf("TRUSTED") = << FalseStr >>
       /\ Done => exitCode = 1

C5_Witness ==
  /\ Done
  /\ Failed("show")
  /\ Ok("fetch")
  /\ Ok("checkout")
  /\ Failed("readtrusted")
  /\ ValuesOf("TRUSTED") = << FalseStr >>

\* The fallback steps run in the order fetch, checkout, read, each at most
\* once and each only after the previous one succeeded, and only after the
\* direct tier failed; once the direct tier has failed the fetch follows.
FallbackOrder ==
  /\ Len(FallbackCalls) <= 3
  /\ \A i \in 1..Len(FallbackCalls) :
       /\ FallbackCalls[i].op = << "fetch", "checkout", "readtrusted" >>[i]
       /\ i < Len(FallbackCalls) => FallbackCalls[i].ok
  /\ Did("fetch") => Failed("show")
  /\ (Failed("show") /\ pc # "fetch") => Did("fetch")
  /\ \A i \in 1..Len(calls) :
       calls[i].op \in FallbackOps
         => \E j \in 1..(i - 1) : calls[j].op = "show" /\ ~calls[j].ok

\* What the fallback returns is the file at the fetched remote tip.
FallbackContent ==
  Ok("readtrusted")
    => /\ remote[Trusted].exists
       /\ remote[Trusted].file.has
       /\ trustedContent = remote[Trusted].file.data
       /\ tracking[Trusted] = remote[Trusted]
       /\ local[Trusted] = remote[Trusted]

FallbackMatches ==
  /\ Done
  /\ Ok("readtrusted")
  /\ start.wt = Blob(trustedContent)

C7_Credentials ==
  /\ Did("credentials") => args.GitPat # ""
  /\ Failed("credentials")
       => /\ err = "credentials"
          /\ ~Did("show") /\ ~Did("fetch") /\ ~Did("checkout")
          /\ ~Did("readtrusted") /\ ~Did("readcurrent")
          /\ pc \in {"defer", "return", "exit"}
          /\ pc # "defer" => ValuesOf("TRUSTED") = << FalseStr >>
          /\ Done => exitCode = 1
  /\ (Did("show") /\ args.GitPat # "") => Ok("credentials")
  /\ Ok("credentials")
       => /\ credHelper = "store"
          /\ credFile = credContent(args.GitPat)
  /\ input.GitPat = ""
       => /\ credHelper = start.credHelper
          /\ credFile = start.credFile

C7_Witness ==
  /\ Done
  /\ Failed("credentials")
  /\ env["cred"] = "writefile"
  /\ credHelper = "store"
  /\ credFile = <<>>
  /\ ValuesOf("TRUSTED") = << FalseStr >>

C9_DirectTierFrame ==
  /\ Ok("show")
       => /\ ~Did("fetch")
          /\ ~Did("checkout")
          /\ ~Did("readtrusted")
          /\ RepoAsAtStart
  /\ ~RepoAsAtStart => Ok("checkout")

C9_Witness ==
  /\ Done
  /\ Ok("show")
  /\ Ok("compare")
  /\ err = "nil"
  /\ RepoAsAtStart
  /\ start.head = "feature"

\* C10: TRUSTED is written as "true" only in a run that returns no error,
\* every run of Exec that returns an error writes TRUSTED as "false", and
\* in a run that writes both outputs TRUSTED_FILE_CONTENT comes first.
C10_OutputsAgreeWithResult ==
  Done
    => /\ (\E i \in 1..Len(writes) :
              writes[i].key = "TRUSTED" /\ writes[i].value = TrueStr)
            => err = "nil"
       /\ err \notin {"nil", "envconfig"}
            => ValuesOf("TRUSTED") = << FalseStr >>
       /\ \A i, j \in 1..Len(writes) :
            (writes[i].key = "TRUSTED_FILE_CONTENT" /\ writes[j].key = "TRUSTED")
              => i < j
====
